---- MODULE Spec2Model ----
(***************************************************************************)
(* Enhanced Image Generation tool for OpenWebUI                            *)
(* (src/enhanced_image_generation.py, class Tools).                        *)
(*                                                                         *)
(* Tools.generate_image is modelled as a state machine per invocation.     *)
(* Python strings are sequences of one-character strings, so that          *)
(* str.startswith, str.split, str.lower, Path.suffix, base64 and           *)
(* json.dumps are computed the way the code computes them.  Python values  *)
(* are records [t, s, n, items] : t is the type, s the characters of a str *)
(* or bytes, n the number of an int, items the (key, value) pairs of a     *)
(* dict in insertion order.                                                *)
(***************************************************************************)
EXTENDS Integers, Sequences, FiniteSets, TLC

VARIABLES
    IMAGE_STEPS,   \* __request__.app.state.config.IMAGE_STEPS : <<>> is None, <<n>> is n
    valves,        \* self.valves, the admin Valves of the Tools object
    host,          \* what the host lets the tool do with its configuration
    inv            \* the locals of each invocation of generate_image

vars == <<IMAGE_STEPS, valves, host, inv>>

(***************************************************************************)
(* Python values                                                           *)
(***************************************************************************)
PyStr(s)   == [t |-> "str",   s |-> s,    n |-> 0, items |-> <<>>]
PyBytes(s) == [t |-> "bytes", s |-> s,    n |-> 0, items |-> <<>>]
PyInt(n)   == [t |-> "int",   s |-> <<>>, n |-> n, items |-> <<>>]
PyNone     == [t |-> "none",  s |-> <<>>, n |-> 0, items |-> <<>>]
PyDict(kv) == [t |-> "dict",  s |-> <<>>, n |-> 0, items |-> kv]

\* bool(v)
Truthy(v) ==
    CASE v.t = "str"   -> v.s # <<>>
      [] v.t = "bytes" -> v.s # <<>>
      [] v.t = "int"   -> v.n # 0
      [] v.t = "none"  -> FALSE
      [] v.t = "dict"  -> v.items # <<>>

\* len(v) is defined (no TypeError) for str, bytes and dict
HasLen(v) == v.t \in {"str", "bytes", "dict"}

\* key in d, d[key]
HasKey(d, key) == \E k \in 1..Len(d.items) : d.items[k][1] = key
GetItem(d, key) == d.items[CHOOSE k \in 1..Len(d.items) : d.items[k][1] = key][2]

(***************************************************************************)
(* Strings                                                                 *)
(***************************************************************************)
\* s.startswith(p)
StartsWith(s, p) == Len(s) >= Len(p) /\ SubSeq(s, 1, Len(p)) = p

\* s.endswith(p)
EndsWith(s, p) == Len(s) >= Len(p) /\ SubSeq(s, Len(s) - Len(p) + 1, Len(s)) = p

UpperLetters ==
    <<"A","B","C","D","E","F","G","H","I","J","K","L","M",
      "N","O","P","Q","R","S","T","U","V","W","X","Y","Z">>
LowerLetters ==
    <<"a","b","c","d","e","f","g","h","i","j","k","l","m",
      "n","o","p","q","r","s","t","u","v","w","x","y","z">>

LowerChar(c) ==
    IF \E k \in 1..26 : UpperLetters[k] = c
    THEN LowerLetters[CHOOSE k \in 1..26 : UpperLetters[k] = c]
    ELSE c

\* s.lower()
Lower(s) == [k \in 1..Len(s) |-> LowerChar(s[k])]

\* s.strip(), for the blank
RECURSIVE LStrip(_)
LStrip(s) == IF s # <<>> /\ Head(s) = " " THEN LStrip(Tail(s)) ELSE s
RECURSIVE RStrip(_)
RStrip(s) ==
    IF s # <<>> /\ s[Len(s)] = " " THEN RStrip(SubSeq(s, 1, Len(s) - 1)) ELSE s
Strip(s) == RStrip(LStrip(s))

\* s.split(sep) for a one-character separator
RECURSIVE Split(_, _)
Split(s, sep) ==
    IF \E k \in 1..Len(s) : s[k] = sep
    THEN LET k == CHOOSE j \in 1..Len(s) :
                      s[j] = sep /\ \A h \in 1..(j - 1) : s[h] # sep
         IN  <<SubSeq(s, 1, k - 1)>> \o Split(SubSeq(s, k + 1, Len(s)), sep)
    ELSE <<s>>

\* s.rfind(c), 1-based; 0 when c does not occur
RFind(s, c) ==
    IF \E k \in 1..Len(s) : s[k] = c
    THEN CHOOSE k \in 1..Len(s) : s[k] = c /\ \A h \in (k + 1)..Len(s) : s[h] # c
    ELSE 0

\* str(n) for n >= 0
Digits == <<"0","1","2","3","4","5","6","7","8","9">>
RECURSIVE IntToStr(_)
IntToStr(n) ==
    IF n < 10 THEN <<Digits[n + 1]>> ELSE IntToStr(n \div 10) \o <<Digits[(n % 10) + 1]>>

\* The string literals of the source
c_data    == <<"d","a","t","a",":">>
c_http    == <<"h","t","t","p">>
c_httpU   == <<"h","t","t","p",":","/","/">>
c_httpsU  == <<"h","t","t","p","s",":","/","/">>
c_b64sep  == <<";","b","a","s","e","6","4",",">>
c_png     == <<"i","m","a","g","e","/","p","n","g">>
c_jpeg    == <<"i","m","a","g","e","/","j","p","e","g">>
c_webp    == <<"i","m","a","g","e","/","w","e","b","p">>
c_gif     == <<"i","m","a","g","e","/","g","i","f">>
c_bmp     == <<"i","m","a","g","e","/","b","m","p">>
c_tiff    == <<"i","m","a","g","e","/","t","i","f","f">>

(***************************************************************************)
(* base64.b64encode(data).decode("utf-8"), data a sequence of 0..255       *)
(***************************************************************************)
B64Alphabet ==
    <<"A","B","C","D","E","F","G","H","I","J","K","L","M",
      "N","O","P","Q","R","S","T","U","V","W","X","Y","Z",
      "a","b","c","d","e","f","g","h","i","j","k","l","m",
      "n","o","p","q","r","s","t","u","v","w","x","y","z",
      "0","1","2","3","4","5","6","7","8","9","+","/">>

B64Group(g) ==
    LET b1 == g[1]
        b2 == IF Len(g) >= 2 THEN g[2] ELSE 0
        b3 == IF Len(g) >= 3 THEN g[3] ELSE 0
        n  == b1 * 65536 + b2 * 256 + b3
        c1 == B64Alphabet[(n \div 262144) + 1]
        c2 == B64Alphabet[((n \div 4096) % 64) + 1]
        c3 == B64Alphabet[((n \div 64) % 64) + 1]
        c4 == B64Alphabet[(n % 64) + 1]
    IN  CASE Len(g) = 1 -> <<c1, c2, "=", "=">>
          [] Len(g) = 2 -> <<c1, c2, c3, "=">>
          [] OTHER      -> <<c1, c2, c3, c4>>

RECURSIVE b64encode(_)
b64encode(data) ==
    IF data = <<>> THEN <<>>
    ELSE IF Len(data) <= 3 THEN B64Group(data)
    ELSE B64Group(SubSeq(data, 1, 3)) \o b64encode(SubSeq(data, 4, Len(data)))

(***************************************************************************)
(* The local filesystem the tool runs on: the entries that exist.  A path  *)
(* that is not listed does not exist.  st_size is the length of content.   *)
(***************************************************************************)
p_a_png   == <<"/","a",".","p","n","g">>
p_b_PNG   == <<"/","b",".","P","N","G">>
p_c_exe   == <<"/","c",".","e","x","e">>
p_e_jpg   == <<"/","e",".","j","p","g">>
p_dir     == <<"/","d">>
p_missing == <<"/","n",".","p","n","g">>

FileSystem ==
    { [path |-> p_a_png, is_file |-> TRUE,  content |-> <<137, 80, 78>>],
      [path |-> p_b_PNG, is_file |-> TRUE,  content |-> <<1, 2>>],
      [path |-> p_c_exe, is_file |-> TRUE,  content |-> <<77>>],
      [path |-> p_e_jpg, is_file |-> TRUE,  content |-> <<>>],
      [path |-> p_dir,   is_file |-> FALSE, content |-> <<>>] }

\* Path("") is ".", the working directory
PathExists(p) == p = <<>> \/ \E f \in FileSystem : f.path = p
PathIsFile(p) == \E f \in FileSystem : f.path = p /\ f.is_file
FileOf(p)     == CHOOSE f \in FileSystem : f.path = p
StatSize(p)   == Len(FileOf(p).content)

\* Path(p).suffix : the last component's text from its last dot, when that dot
\* is neither its first nor its last character
PathName(p) == SubSeq(p, RFind(p, "/") + 1, Len(p))
PathSuffix(p) ==
    LET name == PathName(p)
        k    == RFind(name, ".")
    IN  IF k > 1 /\ k < Len(name) THEN SubSeq(name, k, Len(name)) ELSE <<>>

(***************************************************************************)
(* The filesystem operations of one descriptor's resolution, in the order  *)
(* the code makes them.  At most one of them raises (the first to raise    *)
(* ends the try block it is in): fault names it, "none" when none does.    *)
(* "vanished" and "not_a_file": the entry changed after the caller's test,   *)
(* so that _path_to_data_uri's own exists() or is_file() answers False.    *)
FsFaults ==
    {"none", "r_exists", "r_is_file", "exists", "is_file", "stat", "open", "read",
     "vanished", "not_a_file"}

\* the operation a fault occurs in
OpOfFault(fault) ==
    CASE fault = "vanished"   -> "exists"
      [] fault = "not_a_file" -> "is_file"
      [] OTHER                -> fault

\* [f".{ext.strip().lower()}" for ext in SUPPORTED_FORMATS.split(",")]
supported_exts(formats) ==
    LET parts == Split(formats, ",")
    IN  [k \in 1..Len(parts) |-> <<".">> \o Lower(Strip(parts[k]))]

InSeq(x, seq) == \E k \in 1..Len(seq) : seq[k] = x

\* mime_map.get(p.suffix.lower(), "image/png")
mime_map(ext) ==
    CASE ext = <<".","j","p","g">>         -> c_jpeg
      [] ext = <<".","j","p","e","g">>     -> c_jpeg
      [] ext = <<".","w","e","b","p">>     -> c_webp
      [] ext = <<".","g","i","f">>         -> c_gif
      [] ext = <<".","b","m","p">>         -> c_bmp
      [] ext = <<".","t","i","f","f">>     -> c_tiff
      [] OTHER                             -> c_png

\* file_size > max_size_bytes
TooLarge(file_size, max_mb) == file_size > max_mb * 1024 * 1024

\* p.suffix.lower() in supported_exts (ExtUnchecked: the test left out)
ExtUnchecked(path, formats) == TRUE
ExtSupported(path, formats) == InSeq(Lower(PathSuffix(path)), supported_exts(formats))

\* _path_to_data_uri(path): [out, ops, raised]; out is the returned str, ops the
\* filesystem operations made, in order; every exception is caught (out = "").
\* raised would be TRUE if an exception left the function.
path_to_data_uri(path, v, fault) ==
    LET ret(out, ops) == [out |-> out, ops |-> ops, raised |-> FALSE]
    IN  IF fault = "exists" THEN ret(<<>>, <<"exists">>)
        ELSE IF fault = "vanished" \/ ~PathExists(path) THEN ret(<<>>, <<"exists">>)
        ELSE IF fault = "is_file" THEN ret(<<>>, <<"exists", "is_file">>)
        ELSE IF fault = "not_a_file" \/ ~PathIsFile(path)
             THEN ret(<<>>, <<"exists", "is_file">>)
        ELSE IF fault = "stat" THEN ret(<<>>, <<"exists", "is_file", "stat">>)
        ELSE IF TooLarge(StatSize(path), v.MAX_FILE_SIZE_MB)
             THEN ret(<<>>, <<"exists", "is_file", "stat">>)
        ELSE IF ~ExtSupported(path, v.SUPPORTED_FORMATS)
             THEN ret(<<>>, <<"exists", "is_file", "stat">>)
        ELSE IF fault = "open"
             THEN ret(<<>>, <<"exists", "is_file", "stat", "open">>)
        ELSE IF fault = "read"
             THEN ret(<<>>, <<"exists", "is_file", "stat", "open", "read">>)
        ELSE ret(c_data \o mime_map(Lower(PathSuffix(path))) \o c_b64sep
                     \o b64encode(FileOf(path).content),
                 <<"exists", "is_file", "stat", "open", "read">>)

\* _make_data_uri_from_b64(b64), b64 a str
\* (make_data_uri_always_wraps: without the test for the data: prefix)
make_data_uri_always_wraps(b64) == c_data \o c_png \o c_b64sep \o b64
make_data_uri_from_b64(b64) ==
    IF StartsWith(b64, c_data) THEN b64 ELSE c_data \o c_png \o c_b64sep \o b64

(***************************************************************************)
(* json.dumps(it) and str(it)                                              *)
(***************************************************************************)
KeyChars(key) ==
    CASE key = "url"       -> <<"u","r","l">>
      [] key = "b64"       -> <<"b","6","4">>
      [] key = "image"     -> <<"i","m","a","g","e">>
      [] key = "data"      -> <<"d","a","t","a">>
      [] key = "base64"    -> <<"b","a","s","e","6","4">>
      [] key = "file_path" -> <<"f","i","l","e","_","p","a","t","h">>
      [] key = "path"      -> <<"p","a","t","h">>
      [] key = "src"       -> <<"s","r","c">>
      [] key = "image_url" -> <<"i","m","a","g","e","_","u","r","l">>
      [] key = "seed"      -> <<"s","e","e","d">>

Quoted(s) == <<"\"">> \o s \o <<"\"">>

\* bytes is not JSON serializable: json.dumps raises TypeError
JsonSerializable(v) ==
    /\ v.t # "bytes"
    /\ \A k \in 1..Len(v.items) : v.items[k][2].t # "bytes"

JsonScalar(v) ==
    CASE v.t = "str"  -> Quoted(v.s)
      [] v.t = "int"  -> IntToStr(v.n)
      [] v.t = "none" -> <<"n","u","l","l">>

RECURSIVE JsonItems(_)
JsonItems(kv) ==
    IF kv = <<>> THEN <<>>
    ELSE Quoted(KeyChars(kv[1][1])) \o <<":", " ">> \o JsonScalar(kv[1][2])
         \o (IF Len(kv) > 1 THEN <<",", " ">> ELSE <<>>) \o JsonItems(Tail(kv))

\* json.dumps(it) of a serializable dict of scalars
json_dumps(it) == <<"{">> \o JsonItems(it.items) \o <<"}">>

\* str(it) of a descriptor that is neither a dict nor a str
str_of(it) ==
    CASE it.t = "int"   -> IntToStr(it.n)
      [] it.t = "none"  -> <<"N","o","n","e">>
      [] it.t = "bytes" -> <<"b","'">> \o it.s \o <<"'">>

(***************************************************************************)
(* Resolution of one descriptor (the body of the loop over raw_items).     *)
(* The result is [exc, field, url, ops, mat, matOut, fallback]:            *)
(*   exc      an exception left the loop body (to the handler of           *)
(*            generate_image);                                             *)
(*   field    the mapping field the scan stopped at ("" when none);        *)
(*   url      processed_url as the loop body leaves it;                    *)
(*   ops      the filesystem operations made;                              *)
(*   mat      _path_to_data_uri was called, matOut what it returned,       *)
(*            matRaised whether an exception left it;                      *)
(*   fallback processed_url was replaced by json.dumps(it).                *)
(***************************************************************************)
\* (priority_fields_data_first: the embedded-data fields moved before url)
priority_fields_data_first ==
    <<"b64", "image", "data", "base64", "url", "file_path", "path", "src", "image_url">>
priority_fields ==
    <<"url", "b64", "image", "data", "base64", "file_path", "path", "src", "image_url">>

Res(exc, field, url, ops, mat, matOut) ==
    [exc |-> exc, field |-> field, url |-> url, ops |-> ops,
     mat |-> mat, matOut |-> matOut, matRaised |-> FALSE, fallback |-> FALSE]

\* try: Path(value); exists() and is_file() -> _path_to_data_uri(value), else value;
\* except Exception: value.  Path(value) raises TypeError unless value is a str.
resolve_path(value, field, v, fault) ==
    IF value.t # "str" THEN Res(FALSE, field, value, <<>>, FALSE, <<>>)
    ELSE IF fault = "r_exists" THEN Res(FALSE, field, value, <<"r_exists">>, FALSE, <<>>)
    ELSE IF ~PathExists(value.s) THEN Res(FALSE, field, value, <<"r_exists">>, FALSE, <<>>)
    ELSE IF fault = "r_is_file"
         THEN Res(FALSE, field, value, <<"r_exists", "r_is_file">>, FALSE, <<>>)
    ELSE IF ~PathIsFile(value.s)
         THEN Res(FALSE, field, value, <<"r_exists", "r_is_file">>, FALSE, <<>>)
    ELSE LET m == path_to_data_uri(value.s, v, fault)
         IN  [Res(FALSE, field, IF m.raised THEN value ELSE PyStr(m.out),
                  <<"r_exists", "r_is_file">> \o m.ops, TRUE, m.out)
                 EXCEPT !.matRaised = m.raised]

\* for field in priority_fields: if field in it and it[field]: ...
RECURSIVE scan_fields(_, _, _, _, _)
scan_fields(it, fields, k, v, fault) ==
    IF k > Len(fields) THEN Res(FALSE, "", PyNone, <<>>, FALSE, <<>>)
    ELSE LET field == fields[k] IN
         IF ~(HasKey(it, field) /\ Truthy(GetItem(it, field)))
         THEN scan_fields(it, fields, k + 1, v, fault)
         ELSE LET value == GetItem(it, field) IN
              IF field \in {"url", "file_path", "path"}
              THEN resolve_path(value, field, v, fault)
              ELSE IF field \in {"b64", "base64"}
              THEN \* value.startswith("data:") raises unless value is a str
                   IF value.t # "str"
                   THEN Res(TRUE, field, PyNone, <<>>, FALSE, <<>>)
                   ELSE Res(FALSE, field, PyStr(make_data_uri_from_b64(value.s)),
                            <<>>, FALSE, <<>>)
              ELSE IF value.t = "str"
                      /\ (StartsWith(value.s, c_data) \/ StartsWith(value.s, c_http))
              THEN Res(FALSE, field, value, <<>>, FALSE, <<>>)
              ELSE scan_fields(it, fields, k + 1, v, fault)

\* if not processed_url: processed_url = json.dumps(it)
dict_fallback(it, r) ==
    IF r.exc \/ Truthy(r.url) THEN r
    ELSE IF ~JsonSerializable(it) THEN [r EXCEPT !.exc = TRUE]
    ELSE [r EXCEPT !.url = PyStr(json_dumps(it)), !.fallback = TRUE]

resolve_dict(it, v, fault) == dict_fallback(it, scan_fields(it, priority_fields, 1, v, fault))

resolve_item(it, v, fault) ==
    IF it.t = "dict" THEN resolve_dict(it, v, fault)
    ELSE IF it.t = "str" THEN resolve_path(it, "", v, fault)
    ELSE Res(FALSE, "", PyStr(str_of(it)), <<>>, FALSE, <<>>)

(***************************************************************************)
(* User valves: _get_valve(uvalves, *candidates, default)                  *)
(* uvalves is [kind, attrs]: kind "none" (no valves), "dict", "object" or  *)
(* "raising" (an object whose inspection raises); attrs the (name, value)  *)
(* pairs of the dict's keys or the object's attributes.                    *)
(***************************************************************************)
n_SHOW  == <<"S","H","O","W","_","P","R","O","C","E","S","S","I","N","G","_",
             "S","T","A","T","U","S">>
n_show  == <<"s","h","o","w","_","p","r","o","c","e","s","s","i","n","g","_",
             "s","t","a","t","u","s">>
n_camel == <<"s","h","o","w","P","r","o","c","e","s","s","i","n","g",
             "S","t","a","t","u","s">>
n_Mixed == <<"S","h","o","w","_","P","r","o","c","e","s","s","i","n","g","_",
             "S","t","a","t","u","s">>

show_status_candidates == <<n_SHOW, n_show, n_camel>>

AttrIndex(attrs, name) ==
    IF \E k \in 1..Len(attrs) : attrs[k][1] = name
    THEN CHOOSE k \in 1..Len(attrs) : attrs[k][1] = name
    ELSE 0

AttrIndexLower(attrs, name) ==
    IF \E k \in 1..Len(attrs) : Lower(attrs[k][1]) = Lower(name)
    THEN CHOOSE k \in 1..Len(attrs) : Lower(attrs[k][1]) = Lower(name)
    ELSE 0

\* the first candidate (in order) that cand(k) finds, 0 when none
FirstHit(n, hit(_)) ==
    IF \E k \in 1..n : hit(k) > 0
    THEN hit(CHOOSE k \in 1..n : hit(k) > 0 /\ \A h \in 1..(k - 1) : hit(h) = 0)
    ELSE 0

get_valve(uvalves, candidates, default) ==
    IF uvalves.kind \in {"none", "raising"} THEN default
    ELSE LET exact(k) == AttrIndex(uvalves.attrs, candidates[k])
             lower(k) == AttrIndexLower(uvalves.attrs, candidates[k])
             e == FirstHit(Len(candidates), exact)
             l == FirstHit(Len(candidates), lower)
         IN  IF e > 0 THEN uvalves.attrs[e][2]
             ELSE IF uvalves.kind = "object" /\ l > 0 THEN uvalves.attrs[l][2]
             ELSE default

(***************************************************************************)
(* Events and the event transport (__event_emitter__)                      *)
(* A transport call either completes ("ok") or raises ("raise").           *)
(***************************************************************************)
TransportOutcomes == {"ok", "raise"}

StatusEvent(done) ==
    [type |-> "status", via |-> "status", done |-> done, url |-> PyNone, index |-> 0]
ImageEvent(via, url, index) ==
    [type |-> IF via = "direct" THEN "image" ELSE "message",
     via |-> via, done |-> FALSE, url |-> url, index |-> index]

\* _emit_status: "skipped" (nothing awaited), "sent", "caught" (the transport
\* raised and the exception was logged); "raised" would be an exception leaving it.
emit_status_uncaught(show_status, emitter, outcome) ==
    IF ~show_status \/ ~emitter THEN "skipped"
    ELSE IF outcome = "ok" THEN "sent" ELSE "raised"
\* (emit_status_unconditional: without the test of show_status)
emit_status_unconditional(show_status, emitter, outcome) ==
    IF ~emitter THEN "skipped"
    ELSE IF outcome = "ok" THEN "sent" ELSE "caught"
emit_status(show_status, emitter, outcome) ==
    IF ~show_status \/ ~emitter THEN "skipped"
    ELSE IF outcome = "ok" THEN "sent" ELSE "caught"

\* _emit_image_direct / _emit_image_markdown / _emit_image_html: "sent" (True),
\* "failed" (False: no emitter, or the transport raised and was caught)
emit_method_uncaught(emitter, outcome) ==
    IF ~emitter THEN "failed" ELSE IF outcome = "ok" THEN "sent" ELSE "raised"
emit_method(emitter, outcome) ==
    IF ~emitter THEN "failed" ELSE IF outcome = "ok" THEN "sent" ELSE "failed"

\* the methods list of _emit_image
methods(priority) ==
    CASE priority = "direct"   -> <<"direct", "markdown", "html">>
      [] priority = "markdown" -> <<"markdown", "direct", "html">>
      [] priority = "html"     -> <<"html", "direct", "markdown">>
      [] OTHER                 -> <<"direct", "markdown", "html">>

(***************************************************************************)
(* The host-wide setting: the temporary override and its restoration       *)
(* host = "ok": IMAGE_STEPS can be read and written; "unreadable": reading *)
(* it raises; "readonly": assigning it raises.                             *)
(***************************************************************************)
None == <<>>
Some(n) == <<n>>

\* original_steps = __request__.app.state.config.IMAGE_STEPS
saved_original(h, current) == IF h = "unreadable" THEN None ELSE current

\* __request__.app.state.config.IMAGE_STEPS = steps (not reached when the read
\* of the line before raised)
overridden(h, current, steps) == IF h = "ok" THEN Some(steps) ELSE current

\* finally: if original_steps is not None: ...IMAGE_STEPS = original_steps
restored(h, current, original_steps) ==
    IF original_steps # None /\ h = "ok" THEN original_steps ELSE current

(***************************************************************************)
(* One invocation of generate_image                                        *)
(***************************************************************************)
Procs == {"a", "b"}

NoResolution ==
    [it |-> PyNone, fault |-> "none", appended |-> FALSE, valid |-> FALSE,
     r |-> Res(FALSE, "", PyNone, <<>>, FALSE, <<>>)]

NoResult ==
    [status |-> "none", images |-> <<>>, images_emitted |-> 0,
     total_processed |-> 0, error |-> <<>>]

Idle ==
    [pc |-> "idle", steps |-> 0, show_status |-> TRUE, emitter |-> FALSE,
     entry_steps |-> None, original_steps |-> None, form |-> "none",
     user_obj |-> "none", steps_at_call |-> None, exc |-> <<>>,
     raw_items |-> <<>>, idx |-> 0, last |-> NoResolution, images_out |-> <<>>,
     success_count |-> 0, cur |-> 0, m |-> 0, attempts |-> <<>>, emitted |-> <<>>,
     events |-> <<>>, result |-> NoResult,
     response |-> "pending", transport_raised |-> FALSE, overlaps |-> FALSE]

\* str(e) of the exceptions the handler of generate_image may see
e_import   == <<"N","o"," ","m","o","d","u","l","e">>
e_generate == <<"g","e","n","e","r","a","t","i","o","n"," ","f","a","i","l","e","d">>
e_type     == <<"T","y","p","e","E","r","r","o","r">>
e_emitter  == <<"t","r","a","n","s","p","o","r","t">>

c_error_interno == <<"E","r","r","o","r"," ","i","n","t","e","r","n","o",":"," ">>

\* A coroutine is suspended only inside an awaited host call: the event
\* emitter (when there is one to call) or image_generations.
Suspended(loc) ==
    \/ loc.pc \in {"idle", "done", "await_gen"}
    \/ loc.pc \in {"status_init", "status_gen", "status_final", "status_err"}
          /\ loc.show_status /\ loc.emitter
    \/ loc.pc = "emit" /\ loc.emitter

\* Cooperative scheduling: i runs only while every other invocation is suspended
MayRun(i) == \A j \in Procs \ {i} : Suspended(inv[j])

\* await _emit_status(description, done), from the locals loc
StatusStep(loc, done, outcome) ==
    LET k == emit_status(loc.show_status, loc.emitter, outcome)
    IN  [kind |-> k,
         events |-> IF k = "sent" THEN Append(loc.events, StatusEvent(done))
                    ELSE loc.events]

\* the return statements of generate_image
success_result(loc) ==
    [status |-> "success", images |-> loc.images_out,
     images_emitted |-> loc.success_count,
     total_processed |-> Len(loc.images_out), error |-> <<>>]
failure_result(loc) ==
    [status |-> "failure", images |-> <<>>, images_emitted |-> 0,
     total_processed |-> 0, error |-> c_error_interno \o loc.exc]
raised_result == [NoResult EXCEPT !.status = "raised"]

\* lines 116-172: the arguments and the user valves are read
Call(i, U) ==
    /\ inv[i].pc = "idle"
    /\ MayRun(i)
    /\ \E st \in U.steps, uv \in U.uvalves, em \in U.emitters :
          inv' = [inv EXCEPT ![i] =
                    [@ EXCEPT !.pc = "status_init",
                              !.steps = st,
                              !.show_status = get_valve(uv, show_status_candidates, TRUE),
                              !.emitter = em,
                              !.entry_steps = IMAGE_STEPS,
                              !.overlaps = \E j \in Procs \ {i} :
                                              inv[j].pc \notin {"idle", "done"}]]
    /\ UNCHANGED <<IMAGE_STEPS, valves, host>>

\* line 375: await _emit_status("Inicializando generación de imagen...")
EmitStatusInit(i) ==
    /\ inv[i].pc = "status_init"
    /\ MayRun(i)
    /\ \E o \in TransportOutcomes :
          LET st == StatusStep(inv[i], FALSE, o)
          IN  inv' = [inv EXCEPT ![i] =
                        IF st.kind = "raised"
                        THEN [@ EXCEPT !.pc = "done", !.result = raised_result]
                        ELSE [@ EXCEPT !.pc = "setup", !.events = st.events,
                                       !.transport_raised = @ \/ st.kind = "caught"]]
    /\ UNCHANGED <<IMAGE_STEPS, valves, host>>

\* lines 377-441: the override of IMAGE_STEPS, the payload, the imports, the
\* form and the user.  import_ok: open_webui.routers.images can be imported;
\* form_ok: GenerateImageForm(**payload) succeeds; user_ok: the user is found.
Setup(i, U) ==
    /\ inv[i].pc = "setup"
    /\ MayRun(i)
    /\ \E import_ok \in U.imports, form_ok \in U.forms, user_ok \in U.users :
          /\ import_ok \/ (form_ok /\ user_ok)
          /\ inv' = [inv EXCEPT ![i] =
                [@ EXCEPT !.original_steps = saved_original(host, IMAGE_STEPS),
                          !.pc = IF import_ok THEN "status_gen" ELSE "status_err",
                          !.exc = IF import_ok THEN <<>> ELSE e_import,
                          !.form = IF ~import_ok THEN "none"
                                   ELSE IF form_ok THEN "form" ELSE "payload",
                          !.user_obj = IF import_ok /\ user_ok THEN "user" ELSE "none"]]
    /\ IMAGE_STEPS' = overridden(host, IMAGE_STEPS, inv[i].steps)
    /\ UNCHANGED <<valves, host>>

\* lines 443-449: await _emit_status("Generando imagen..."), then
\* image_generations(request, form_data, user) is called
EmitStatusGen(i) ==
    /\ inv[i].pc = "status_gen"
    /\ MayRun(i)
    /\ \E o \in TransportOutcomes :
          LET st == StatusStep(inv[i], FALSE, o)
          IN  inv' = [inv EXCEPT ![i] =
                        IF st.kind = "raised"
                        THEN [@ EXCEPT !.pc = "status_err", !.exc = e_emitter]
                        ELSE [@ EXCEPT !.pc = "await_gen", !.events = st.events,
                                       !.transport_raised = @ \/ st.kind = "caught",
                                       !.steps_at_call = IMAGE_STEPS]]
    /\ UNCHANGED <<IMAGE_STEPS, valves, host>>

\* lines 470-476: None -> [], a list -> itself, anything else -> [images]
\* (raw_items_unnormalized: without the test for None, None is one more item)
raw_items_unnormalized(response) ==
    IF response.kind = "none" THEN <<PyNone>> ELSE response.items
raw_items_of(response) == IF response.kind = "none" THEN <<>> ELSE response.items

\* lines 447-478: image_generations returns (or raises); the response is normalized
GenReturn(i, U) ==
    /\ inv[i].pc = "await_gen"
    /\ MayRun(i)
    /\ \E response \in U.responses :
          inv' = [inv EXCEPT ![i] =
                    IF response.kind = "raise"
                    THEN [@ EXCEPT !.pc = "status_err", !.exc = e_generate,
                                   !.response = response.kind]
                    ELSE [@ EXCEPT !.raw_items = raw_items_of(response),
                                   !.response = response.kind,
                                   !.pc = IF raw_items_of(response) = <<>>
                                          THEN "status_final" ELSE "process"]]
    /\ UNCHANGED <<IMAGE_STEPS, valves, host>>

\* the emission loop starts (or, with no image, is skipped)
start_emission(loc) ==
    [loc EXCEPT !.pc = IF loc.images_out = <<>> THEN "status_final" ELSE "emit",
                !.cur = IF loc.images_out = <<>> THEN 0 ELSE 1,
                !.m = IF loc.images_out = <<>> THEN 0 ELSE 1,
                !.attempts = [k \in 1..Len(loc.images_out) |-> <<>>]]

\* if processed_url: images_out.append(processed_url)
\* (appends_unfiltered: the append without the test)
appends_unfiltered(r) == TRUE
appends(r) == Truthy(r.url)

\* lines 480-569: one iteration of the loop over raw_items
ProcessItem(i, U) ==
    /\ inv[i].pc = "process"
    /\ MayRun(i)
    /\ \E fault \in U.faults :
          LET loc == inv[i]
              it  == loc.raw_items[loc.idx + 1]
              r   == resolve_item(it, valves, fault)
              out == IF appends(r) THEN Append(loc.images_out, r.url)
                     ELSE loc.images_out
              nxt == [loc EXCEPT !.idx = loc.idx + 1,
                                 !.images_out = out,
                                 !.last = [it |-> it, fault |-> fault, r |-> r,
                                           appended |-> appends(r), valid |-> TRUE]]
          IN  /\ fault = "none" \/ InSeq(OpOfFault(fault), r.ops)
              /\ inv' = [inv EXCEPT ![i] =
                    IF r.exc
                    THEN [loc EXCEPT !.pc = "status_err", !.exc = e_type,
                                     !.idx = loc.idx + 1,
                                     !.last = [it |-> it, fault |-> fault, r |-> r,
                                               appended |-> FALSE, valid |-> TRUE]]
                    ELSE IF loc.idx + 1 = Len(loc.raw_items)
                    THEN start_emission(nxt)
                    ELSE nxt]
    /\ UNCHANGED <<IMAGE_STEPS, valves, host>>

\* _emit_image leaves the loop of generate_image at the next image, or at the end
next_image(loc, ok) ==
    [loc EXCEPT !.emitted = Append(loc.emitted, ok),
                !.success_count = IF ok THEN loc.success_count + 1
                                  ELSE loc.success_count,
                !.cur = loc.cur + 1,
                !.m = 1,
                !.pc = IF loc.cur = Len(loc.images_out) THEN "status_final"
                       ELSE "emit"]

\* for method_name, method_func in methods: if await method_func(): return True
\* (after_attempt_keep_going: the loop without the return on success)
after_attempt_keep_going(loc, method, kind) ==
    LET tried == [loc EXCEPT !.attempts[loc.cur] =
                                Append(@, [method |-> method, sent |-> kind = "sent"]),
                             !.events = IF kind = "sent"
                                        THEN Append(@, ImageEvent(method,
                                                 loc.images_out[loc.cur], loc.cur))
                                        ELSE @]
    IN  IF loc.m = 3 THEN next_image(tried, kind = "sent")
        ELSE [tried EXCEPT !.m = loc.m + 1]
after_attempt(loc, method, kind) ==
    LET tried == [loc EXCEPT !.attempts[loc.cur] =
                                Append(@, [method |-> method, sent |-> kind = "sent"]),
                             !.events = IF kind = "sent"
                                        THEN Append(@, ImageEvent(method,
                                                 loc.images_out[loc.cur], loc.cur))
                                        ELSE @]
    IN  IF kind = "sent" THEN next_image(tried, TRUE)
        ELSE IF loc.m = 3 THEN next_image(tried, FALSE)
        ELSE [tried EXCEPT !.m = loc.m + 1]

\* lines 319-372 and 575-589: _emit_image(url, ...) for images_out[cur], one
\* delivery method per step.  Before the first method: an empty url returns
\* False, and len(url_or_datauri) raises TypeError for a value without len().
TryMethod(i) ==
    /\ inv[i].pc = "emit"
    /\ MayRun(i)
    /\ \E o \in TransportOutcomes :
          LET loc    == inv[i]
              url    == loc.images_out[loc.cur]
              method == methods(valves.EMIT_METHOD_PRIORITY)[loc.m]
              kind   == emit_method(loc.emitter, o)
              tried  == [loc EXCEPT !.transport_raised =
                                        @ \/ (loc.emitter /\ o = "raise")]
          IN  inv' = [inv EXCEPT ![i] =
                    IF loc.m = 1 /\ ~Truthy(url) THEN next_image(loc, FALSE)
                    ELSE IF loc.m = 1 /\ ~HasLen(url)
                    THEN [loc EXCEPT !.pc = "status_err", !.exc = e_type]
                    ELSE IF kind = "raised"
                    THEN [loc EXCEPT !.pc = "status_err", !.exc = e_emitter]
                    ELSE after_attempt(tried, method, kind)]
    /\ UNCHANGED <<IMAGE_STEPS, valves, host>>

\* lines 591-614 and 638-645: the final status, the success result, the finally block
EmitStatusFinal(i) ==
    /\ inv[i].pc = "status_final"
    /\ MayRun(i)
    /\ \E o \in TransportOutcomes :
          LET st == StatusStep(inv[i], TRUE, o)
          IN  IF st.kind = "raised"
              THEN /\ inv' = [inv EXCEPT ![i] =
                                [@ EXCEPT !.pc = "status_err", !.exc = e_emitter]]
                   /\ UNCHANGED IMAGE_STEPS
              ELSE /\ inv' = [inv EXCEPT ![i] =
                                [@ EXCEPT !.pc = "done", !.events = st.events,
                                          !.transport_raised = @ \/ st.kind = "caught",
                                          !.result = success_result(inv[i])]]
                   /\ IMAGE_STEPS' = restored(host, IMAGE_STEPS, inv[i].original_steps)
    /\ UNCHANGED <<valves, host>>

\* lines 616-645: the handler of generate_image, its status, the failure result,
\* the finally block
EmitStatusErr(i) ==
    /\ inv[i].pc = "status_err"
    /\ MayRun(i)
    /\ \E o \in TransportOutcomes :
          LET st == StatusStep(inv[i], TRUE, o)
          IN  inv' = [inv EXCEPT ![i] =
                        IF st.kind = "raised"
                        THEN [@ EXCEPT !.pc = "done", !.result = raised_result]
                        ELSE [@ EXCEPT !.pc = "done", !.events = st.events,
                                       !.transport_raised = @ \/ st.kind = "caught",
                                       !.result = failure_result(inv[i])]]
    /\ IMAGE_STEPS' = restored(host, IMAGE_STEPS, inv[i].original_steps)
    /\ UNCHANGED <<valves, host>>

Step(i, U) ==
    \/ Call(i, U)
    \/ EmitStatusInit(i)
    \/ Setup(i, U)
    \/ EmitStatusGen(i)
    \/ GenReturn(i, U)
    \/ ProcessItem(i, U)
    \/ TryMethod(i)
    \/ EmitStatusFinal(i)
    \/ EmitStatusErr(i)

(***************************************************************************)
(* Inputs                                                                  *)
(***************************************************************************)
MaxItems == 2

SeqsUpTo(S, n) == UNION {[1..k -> S] : k \in 0..n}

u_https   == <<"h","t","t","p","s",":","/","/","e","/","x",".","p","n","g">>
u_datauri == c_data \o c_png \o c_b64sep \o <<"Q","Q","=","=">>
t_b64     == <<"Q","U","J","D">>
t_b64b    == <<"Z","g","=","=">>
t_plain   == <<"c","a","t">>

\* Valves(): the defaults of the admin valves
DEFAULT_MAX_FILE_SIZE_MB == 10
f_default ==
    <<"p","n","g",",","j","p","g",",","j","p","e","g",",","w","e","b","p",",",
      "g","i","f",",","b","m","p",",","t","i","f","f">>
f_custom == <<" ","P","N","G"," ",",","g","i","f">>

Priorities == {"auto", "direct", "markdown", "html"}

ValvesOf(priorities, sizes, formats) ==
    [EMIT_METHOD_PRIORITY : priorities, MAX_FILE_SIZE_MB : sizes,
     SUPPORTED_FORMATS : formats]

\* __user__["valves"] in its shapes
UserValveShapes ==
    { [kind |-> "none",    attrs |-> <<>>],
      [kind |-> "raising", attrs |-> <<>>],
      [kind |-> "dict",    attrs |-> << <<n_SHOW, FALSE>> >>],
      [kind |-> "dict",    attrs |-> << <<n_camel, FALSE>>, <<n_show, TRUE>> >>],
      [kind |-> "dict",    attrs |-> << <<n_Mixed, FALSE>> >>],
      [kind |-> "object",  attrs |-> << <<n_Mixed, FALSE>> >>] }

Response(kind, items) == [kind |-> kind, items |-> items]

Dict1(k, v) == PyDict(<< <<k, v>> >>)
Dict2(k1, v1, k2, v2) == PyDict(<< <<k1, v1>>, <<k2, v2>> >>)

\* what image_generations may return: None, a list, or a single descriptor
ResponsesOver(singles, core) ==
    {Response("raise", <<>>), Response("none", <<>>)}
        \cup {Response("single", <<d>>) : d \in singles}
        \cup {Response("list", l) : l \in SeqsUpTo(core, MaxItems)}

CoreDescriptors ==
    { PyStr(u_https), PyStr(p_c_exe), Dict1("url", PyStr(p_a_png)) }

MainSingles ==
    { PyInt(42), PyBytes(t_plain), Dict1("b64", PyInt(7)), Dict1("url", PyInt(7)),
      Dict1("image", PyBytes(t_b64)), Dict1("url", PyStr(p_c_exe)) }

UMain ==
    [procs     |-> {"a"},
     valves    |-> ValvesOf(Priorities, {DEFAULT_MAX_FILE_SIZE_MB}, {f_default}),
     hosts     |-> {"ok", "unreadable", "readonly"},
     priors    |-> {None, Some(50)},
     steps     |-> {15},
     uvalves   |-> UserValveShapes,
     emitters  |-> BOOLEAN,
     imports   |-> BOOLEAN,
     forms     |-> BOOLEAN,
     users     |-> BOOLEAN,
     faults    |-> {"none"},
     responses |-> ResponsesOver(MainSingles, CoreDescriptors)]

InitOver(U) ==
    /\ IMAGE_STEPS \in U.priors
    /\ valves \in U.valves
    /\ host \in U.hosts
    /\ inv = [i \in Procs |-> Idle]

NextOver(U) == \E i \in U.procs : Step(i, U)

Init == InitOver(UMain)
Next == NextOver(UMain)
Spec == Init /\ [][Next]_vars

(***************************************************************************)
(* The descriptors image_generations may return, for the resolution of one *)
(* descriptor: plain strings, values of other types, and mappings with one *)
(* or two fields.                                                          *)
(***************************************************************************)
PathFields == {"url", "file_path", "path"}
B64Fields  == {"b64", "base64"}
DataFields == {"b64", "base64", "image", "data"}

LocalPaths == {p_a_png, p_b_PNG, p_c_exe, p_e_jpg, p_dir, p_missing}

StringDescriptors ==
    {PyStr(p) : p \in LocalPaths \cup {u_https, u_datauri, t_plain, <<>>}}

OtherDescriptors == {PyInt(42), PyNone, PyBytes(t_plain)}

PathValues ==
    {PyStr(p) : p \in LocalPaths \cup {u_https, <<>>}} \cup {PyInt(7), PyBytes(t_plain)}

DataValues ==
    {PyStr(t_b64), PyStr(u_datauri), PyStr(u_https), PyStr(<<>>), PyInt(7),
     PyBytes(t_b64)}

OneFieldDescriptors ==
    {Dict1(f, v) : f \in PathFields, v \in PathValues}
        \cup {Dict1(f, v) : f \in DataFields \cup {"src", "image_url"}, v \in DataValues}
        \cup {PyDict(<<>>), Dict1("seed", PyInt(5))}

\* a URL/path field together with an embedded-data field, in both orders
PathAndDataDescriptors ==
    LET pv == {PyStr(p_a_png), PyStr(p_c_exe), PyStr(u_https)}
        dv == {PyStr(t_b64), PyStr(u_datauri)}
    IN  {Dict2(f, v, g, w) : f \in PathFields, v \in pv, g \in DataFields, w \in dv}
            \cup {Dict2(g, w, f, v) : f \in PathFields, v \in pv, g \in DataFields, w \in dv}

\* two embedded-data fields
TwoDataDescriptors ==
    {Dict2(f, v, g, w) : f \in {"b64", "image", "data"}, g \in {"base64"},
                         v \in {PyStr(t_b64), PyStr(u_datauri)},
                         w \in {PyStr(t_b64b), PyStr(u_datauri)}}

Descriptors ==
    StringDescriptors \cup OtherDescriptors \cup OneFieldDescriptors
        \cup PathAndDataDescriptors \cup TwoDataDescriptors

UResolve ==
    [procs     |-> {"a"},
     valves    |-> ValvesOf({"auto"}, {0, DEFAULT_MAX_FILE_SIZE_MB}, {f_default, f_custom}),
     hosts     |-> {"ok"},
     priors    |-> {Some(50)},
     steps     |-> {15},
     uvalves   |-> {[kind |-> "dict", attrs |-> << <<n_SHOW, FALSE>> >>]},
     emitters  |-> {TRUE},
     imports   |-> BOOLEAN,
     forms     |-> {TRUE},
     users     |-> {TRUE},
     faults    |-> FsFaults,
     responses |-> ResponsesOver({}, {PyStr(u_https), Dict1("url", PyStr(p_c_exe))})
                      \cup {Response("list", <<d>>) : d \in Descriptors}]

InitResolve == InitOver(UResolve)
NextResolve == NextOver(UResolve)
SpecResolve == InitResolve /\ [][NextResolve]_vars

(***************************************************************************)
(* Two invocations of generate_image on the same host, interleaved at      *)
(* their await points: distinct steps arguments, a host whose setting is   *)
(* set beforehand, with and without status events.                         *)
(***************************************************************************)
UOverlap ==
    [procs     |-> Procs,
     valves    |-> ValvesOf({"auto"}, {DEFAULT_MAX_FILE_SIZE_MB}, {f_default}),
     hosts     |-> {"ok"},
     priors    |-> {Some(50)},
     steps     |-> {15, 30},
     uvalves   |-> {[kind |-> "none", attrs |-> <<>>],
                    [kind |-> "dict", attrs |-> << <<n_SHOW, FALSE>> >>]},
     emitters  |-> {TRUE},
     imports   |-> BOOLEAN,
     forms     |-> {TRUE},
     users     |-> {TRUE},
     faults    |-> {"none"},
     responses |-> {Response("raise", <<>>), Response("none", <<>>),
                    Response("list", <<PyStr(u_https)>>),
                    Response("single", <<PyStr(p_c_exe)>>)}]

InitOverlap == InitOver(UOverlap)
NextOverlap == NextOver(UOverlap)
SpecOverlap == InitOverlap /\ [][NextOverlap]_vars

(***************************************************************************)
(* Properties                                                              *)
(***************************************************************************)
Locals == {inv[i] : i \in Procs}

HasTruthy(it, f) == HasKey(it, f) /\ Truthy(GetItem(it, f))
UrlLike(v) == v.t = "str" /\ (StartsWith(v.s, c_data) \/ StartsWith(v.s, c_http))
HasUrlLike(it, f) == HasTruthy(it, f) /\ UrlLike(GetItem(it, f))

Contains(s, p) == \E k \in 1..(Len(s) - Len(p) + 1) : SubSeq(s, k, k + Len(p) - 1) = p
IsHttpUrl(s) == StartsWith(s, c_httpU) \/ StartsWith(s, c_httpsU)
IsDataUri(s) == StartsWith(s, c_data) /\ Contains(s, c_b64sep)

\* the image and message events delivered for image k
DeliveredFor(loc, k) ==
    {e \in 1..Len(loc.events) : loc.events[e].type # "status" /\ loc.events[e].index = k}

MethodsTried(att) == {att[j].method : j \in 1..Len(att)}
AllFailed(att) == \A j \in 1..Len(att) : ~att[j].sent

\* C1: once generate_image has returned, with IMAGE_STEPS readable and writable
\* and no other invocation overlapping, IMAGE_STEPS holds the value it had when
\* the invocation started, whatever that value was (None included).
C1_StepsRestoredOnReturn ==
    \A loc \in Locals :
        (loc.pc = "done" /\ host = "ok") => IMAGE_STEPS = loc.entry_steps

\* C2: for each image handed to _emit_image, the delivery methods are attempted
\* in the order of EMIT_METHOD_PRIORITY (the named method first; direct, markdown,
\* html for auto), no method is attempted after one succeeded, at most one
\* image/message event is delivered for the image, and _emit_image returns False
\* exactly when the input is empty (nothing attempted) or all three methods failed.
C2_DeliveryOrderAndFirstSuccess ==
    \A loc \in Locals : \A k \in 1..Len(loc.attempts) :
        LET att   == loc.attempts[k]
            p     == valves.EMIT_METHOD_PRIORITY
            empty == ~Truthy(loc.images_out[k])
            done  == k <= Len(loc.emitted)
        IN  /\ Len(att) <= 3
            /\ att # <<>> => att[1].method = (IF p = "auto" THEN "direct" ELSE p)
            /\ \A a, b \in 1..Len(att) : a # b => att[a].method # att[b].method
            /\ p = "auto" =>
                  \A j \in 1..Len(att) : att[j].method = <<"direct", "markdown", "html">>[j]
            /\ \A j \in 1..(Len(att) - 1) : ~att[j].sent
            /\ Cardinality(DeliveredFor(loc, k)) = (IF AllFailed(att) THEN 0 ELSE 1)
            /\ empty => att = <<>>
            /\ done => (loc.emitted[k] = FALSE <=>
                            (empty \/ (Len(att) = 3 /\ AllFailed(att))))

C2_Witness ==
    \E loc \in Locals : \E k \in 1..Len(loc.emitted) :
        /\ valves.EMIT_METHOD_PRIORITY = "markdown"
        /\ loc.emitted[k]
        /\ loc.attempts[k] = << [method |-> "markdown", sent |-> FALSE],
                                [method |-> "direct", sent |-> TRUE] >>
        /\ Cardinality(DeliveredFor(loc, k)) = 1

\* C3: a delivery method that fails (the transport raises, or there is no
\* emitter) is followed by the next method of the order; failure is reported
\* only after direct, markdown and html have all been attempted; and no
\* transport exception leaves _emit_image (none reaches the handler of
\* generate_image or its caller).
C3_FailureFallsThrough ==
    \A loc \in Locals :
        /\ loc.exc # e_emitter
        /\ loc.result.status # "raised"
        /\ \A k \in 1..Len(loc.attempts) :
              LET att == loc.attempts[k]
              IN  /\ (loc.pc = "emit" /\ loc.cur = k) =>
                        (AllFailed(att) /\ loc.m = Len(att) + 1)
                  /\ (k <= Len(loc.emitted) /\ ~loc.emitted[k]) =>
                        MethodsTried(att) = {"direct", "markdown", "html"}
                  /\ (k < loc.cur /\ AllFailed(att)) =>
                        MethodsTried(att) = {"direct", "markdown", "html"}

C3_Witness ==
    \E loc \in Locals : \E k \in 1..Len(loc.emitted) :
        /\ valves.EMIT_METHOD_PRIORITY = "html"
        /\ loc.emitter
        /\ ~loc.emitted[k]
        /\ loc.attempts[k] = << [method |-> "html", sent |-> FALSE],
                                [method |-> "direct", sent |-> FALSE],
                                [method |-> "markdown", sent |-> FALSE] >>

\* C4: generate_image never raises to its caller: whatever fails, it returns a
\* result; when image_generations raised, the result is a failure whose error
\* begins with "Error interno: ".
C4_NeverRaises ==
    \A loc \in Locals :
        /\ loc.result.status # "raised"
        /\ loc.pc = "done" => loc.result.status \in {"success", "failure"}
        /\ (loc.pc = "done" /\ loc.exc # <<>>) =>
              /\ loc.result.status = "failure"
              /\ StartsWith(loc.result.error, c_error_interno)
        /\ (loc.pc = "done" /\ loc.exc = e_generate) =>
              loc.result.error = c_error_interno \o e_generate

C4_Witness ==
    \E loc \in Locals :
        /\ loc.pc = "done"
        /\ loc.exc = e_generate
        /\ loc.show_status /\ loc.emitter
        /\ \A e \in 1..Len(loc.events) : ~loc.events[e].done
        /\ loc.result.status = "failure"

\* the path a resolved descriptor names: the string itself, or the value of the
\* URL/path field the scan of a mapping stopped at
NamedPath(last) ==
    IF last.it.t = "str" THEN last.it
    ELSE IF last.it.t = "dict" /\ last.r.field \in PathFields
         THEN GetItem(last.it, last.r.field)
    ELSE PyNone

SizeLimit == 1024 * 1024

\* the four tests of _path_to_data_uri, from the filesystem and the valves
Accepted(path, v) ==
    /\ \E f \in FileSystem : f.path = path /\ f.is_file
    /\ \A f \in FileSystem :
          f.path = path => Len(f.content) <= v.MAX_FILE_SIZE_MB * SizeLimit
    /\ \E k \in 1..Len(Split(v.SUPPORTED_FORMATS, ",")) :
          <<".">> \o Lower(Strip(Split(v.SUPPORTED_FORMATS, ",")[k]))
              = Lower(PathSuffix(path))

\* C5: a descriptor (a plain string, or a mapping through its url, file_path or
\* path field) that names an existing local file which the materializer rejects
\* (too large, or extension not supported) appends nothing to images and nothing
\* is delivered for it.
C5_RejectedFileIsSkipped ==
    \A loc \in Locals :
        LET np == NamedPath(loc.last)
        IN  (/\ loc.last.valid
             /\ loc.last.fault = "none"
             /\ np.t = "str"
             /\ PathIsFile(np.s)
             /\ ~Accepted(np.s, valves))
            => (/\ ~loc.last.appended
                /\ \A e \in 1..Len(loc.events) :
                      loc.events[e].type = "status" \/ loc.events[e].url # loc.last.r.url)

\* C6 as stated: in a successful result every element of images is a non-empty
\* string that is an http(s):// URL or a data:<mime>;base64,<payload> URI.
C6_ImagesAreUrlsOrDataUris ==
    \A loc \in Locals :
        loc.result.status = "success" =>
            \A k \in 1..Len(loc.result.images) :
                LET x == loc.result.images[k]
                IN  x.t = "str" /\ x.s # <<>> /\ (IsHttpUrl(x.s) \/ IsDataUri(x.s))

\* C6 amended: every element of images_out (and so of a successful result's
\* images) and every value handed to a delivery method is non-empty; a
\* successful result's images are images_out and each has a length.
C6_ImagesAreNonEmpty ==
    \A loc \in Locals :
        /\ \A k \in 1..Len(loc.images_out) : Truthy(loc.images_out[k])
        /\ \A e \in 1..Len(loc.events) :
              loc.events[e].type # "status" =>
                  /\ loc.events[e].index \in 1..Len(loc.images_out)
                  /\ loc.events[e].url = loc.images_out[loc.events[e].index]
                  /\ Truthy(loc.events[e].url)
        /\ loc.result.status = "success" =>
              /\ loc.result.images = loc.images_out
              /\ \A k \in 1..Len(loc.result.images) :
                    Truthy(loc.result.images[k]) /\ HasLen(loc.result.images[k])

C6_Witness ==
    \E loc \in Locals : \E k \in 1..Len(loc.result.images) :
        LET x == loc.result.images[k]
        IN  /\ loc.result.status = "success"
            /\ x.t = "str" /\ ~IsHttpUrl(x.s) /\ ~IsDataUri(x.s)
            /\ DeliveredFor(loc, k) # {}

C8_ReadsOnlyAfterChecks ==
    \A loc \in Locals :
        (loc.last.valid /\ loc.last.r.mat) =>
            LET path   == NamedPath(loc.last).s
                f      == loc.last.fault
                ops    == SubSeq(loc.last.r.ops, 3, Len(loc.last.r.ops))
                passed == /\ Accepted(path, valves)
                          /\ f \notin {"vanished", "not_a_file", "exists", "is_file", "stat"}
                opened == InSeq("open", ops)
                read   == InSeq("read", ops) /\ f # "read"
            IN  /\ ~loc.last.r.matRaised
                /\ opened => passed
                /\ InSeq("read", ops) => (opened /\ f # "open")
                /\ (~passed \/ f \in {"open", "read"}) =>
                      (loc.last.r.matOut = <<>> /\ ~read)
                /\ (passed /\ f \notin {"open", "read"}) =>
                      (read /\ IsDataUri(loc.last.r.matOut))

C8_Witness ==
    \E loc \in Locals :
        /\ loc.last.valid
        /\ loc.last.r.mat
        /\ loc.last.fault = "none"
        /\ NamedPath(loc.last) = PyStr(p_a_png)
        /\ valves.MAX_FILE_SIZE_MB = 0
        /\ valves.SUPPORTED_FORMATS = f_default
        /\ loc.last.r.ops = <<"r_exists", "r_is_file", "exists", "is_file", "stat">>
        /\ loc.last.r.matOut = <<>>

\* what a b64/base64 value is to become
Wrapped(b64) == IF StartsWith(b64, c_data) THEN b64 ELSE c_data \o c_png \o c_b64sep \o b64

\* C9 as stated: a mapping with a non-empty b64 or base64 field, whatever else it
\* carries, resolves to a string that starts with data: and ends with that
\* field's value (wrapped as data:image/png;base64,<value>, or unchanged when it
\* already begins with data:).
C9_B64AlwaysBecomesDataUri ==
    \A loc \in Locals :
        LET it == loc.last.it
        IN  (/\ loc.last.valid
             /\ it.t = "dict"
             /\ \E f \in B64Fields : HasTruthy(it, f) /\ GetItem(it, f).t = "str")
            => (/\ ~loc.last.r.exc
                /\ loc.last.r.url.t = "str"
                /\ StartsWith(loc.last.r.url.s, c_data)
                /\ \E f \in B64Fields :
                      /\ HasTruthy(it, f)
                      /\ GetItem(it, f).t = "str"
                      /\ loc.last.r.url.s = Wrapped(GetItem(it, f).s))

\* C9 amended: a mapping with no non-empty url field and a non-empty string in
\* b64 resolves to that value wrapped as data:image/png;base64,<value>, or to the
\* value itself when it already begins with data:; the same holds of base64 when
\* moreover b64 is empty or absent and neither image nor data holds a string
\* beginning with data: or http.
C9_SelectedB64BecomesDataUri ==
    \A loc \in Locals :
        LET it == loc.last.it
            r  == loc.last.r
            becomes(v) == /\ ~r.exc
                          /\ r.url = PyStr(Wrapped(v.s))
                          /\ StartsWith(r.url.s, c_data)
                          /\ EndsWith(r.url.s, v.s)
                          /\ loc.last.appended
        IN  (loc.last.valid /\ it.t = "dict" /\ ~HasTruthy(it, "url")) =>
              /\ (HasTruthy(it, "b64") /\ GetItem(it, "b64").t = "str")
                    => (r.field = "b64" /\ becomes(GetItem(it, "b64")))
              /\ (/\ ~HasTruthy(it, "b64")
                  /\ ~HasUrlLike(it, "image")
                  /\ ~HasUrlLike(it, "data")
                  /\ HasTruthy(it, "base64")
                  /\ GetItem(it, "base64").t = "str")
                    => (r.field = "base64" /\ becomes(GetItem(it, "base64")))

C9_Witness ==
    \E loc \in Locals :
        /\ loc.last.valid
        /\ loc.last.it = Dict2("file_path", PyStr(p_a_png), "base64", PyStr(u_datauri))
        /\ loc.last.r.field = "base64"
        /\ loc.last.r.url = PyStr(u_datauri)

\* C10: a plain-string descriptor, or the value of a mapping's url field, that
\* names an existing regular file resolves to what _path_to_data_uri returns for
\* it (never to the raw path); any other value is passed through unchanged.
C10_FileOrPassThrough ==
    \A loc \in Locals :
        LET it == loc.last.it
            r  == loc.last.r
            subject == IF it.t = "str" THEN it ELSE GetItem(it, "url")
        IN  (/\ loc.last.valid
             /\ loc.last.fault = "none"
             /\ it.t = "str" \/ (it.t = "dict" /\ HasTruthy(it, "url")))
            => IF subject.t = "str" /\ PathIsFile(subject.s)
               THEN r.mat /\ r.url = PyStr(r.matOut)
               ELSE r.url = subject

\* the images of a result for which some delivery method succeeded
EmittedImages(loc) ==
    {k \in 1..Len(loc.result.images) : DeliveredFor(loc, k) # {}}

\* C11: in a successful result total_processed is the length of images,
\* images_emitted is the number of those images some delivery method succeeded
\* for, and 0 <= images_emitted <= total_processed <= the number of descriptors
\* image_generations returned; when it returned None the result is a success
\* with images = [], images_emitted = 0, total_processed = 0 and no image or
\* message event was emitted.
C11_CountsAreConsistent ==
    \A loc \in Locals :
        /\ loc.result.status = "success" =>
              /\ loc.result.total_processed = Len(loc.result.images)
              /\ loc.result.images_emitted = Cardinality(EmittedImages(loc))
              /\ 0 <= loc.result.images_emitted
              /\ loc.result.images_emitted <= loc.result.total_processed
              /\ loc.result.total_processed <= Len(loc.raw_items)
        /\ loc.response = "none" =>
              /\ loc.raw_items = <<>>
              /\ \A e \in 1..Len(loc.events) : loc.events[e].type = "status"
              /\ loc.pc = "done" =>
                    /\ loc.result.status = "success"
                    /\ loc.result.images = <<>>
                    /\ loc.result.images_emitted = 0
                    /\ loc.result.total_processed = 0

C11_Witness ==
    \E loc \in Locals :
        /\ loc.result.status = "success"
        /\ loc.response = "list"
        /\ Len(loc.raw_items) = 2
        /\ loc.result.total_processed = 1
        /\ loc.result.images_emitted = 1
        /\ loc.emitted = <<TRUE>>

\* C12: when an invocation calls image_generations, IMAGE_STEPS (writable) is
\* that invocation's steps argument, however two invocations interleave at their
\* await points.
C12_StepsAtCallAreOwn ==
    \A loc \in Locals :
        (host = "ok" /\ loc.pc \notin {"idle", "status_init", "setup", "status_gen"}
                     /\ loc.response # "pending")
            => loc.steps_at_call = Some(loc.steps)

\* C13: once two overlapping invocations have both returned, IMAGE_STEPS holds
\* the value it had before either started (the value the first of them found).
C13_StepsRestoredAfterOverlap ==
    \A i, j \in Procs :
        (/\ i # j
         /\ host = "ok"
         /\ inv[i].pc = "done" /\ inv[j].pc = "done"
         /\ ~inv[i].overlaps /\ inv[j].overlaps)
        => IMAGE_STEPS = inv[i].entry_steps

\* the status events with done=True among the events of an invocation
DoneStatuses(loc) ==
    {e \in 1..Len(loc.events) : loc.events[e].type = "status" /\ loc.events[e].done}

\* C14: with show_status enabled and an event emitter that never raised, an
\* invocation that has returned, successfully or not, has emitted exactly one
\* status event with done=True; that event is the last event it emitted and
\* every earlier status event has done=False (none with done=True is emitted
\* before the return).  With show_status disabled no status event is emitted.
C14_OneFinalStatus ==
    \A loc \in Locals :
        /\ ~loc.show_status =>
              \A e \in 1..Len(loc.events) : loc.events[e].type # "status"
        /\ (loc.show_status /\ loc.emitter /\ ~loc.transport_raised) =>
              /\ \A e \in DoneStatuses(loc) : e = Len(loc.events)
              /\ \A e \in 1..(Len(loc.events) - 1) :
                    loc.events[e].type = "status" => ~loc.events[e].done
              /\ loc.pc # "done" => DoneStatuses(loc) = {}
              /\ loc.pc = "done" =>
                    /\ loc.result.status \in {"success", "failure"}
                    /\ Cardinality(DoneStatuses(loc)) = 1
                    /\ loc.events[Len(loc.events)] = StatusEvent(TRUE)

C14_Witness ==
    \E loc \in Locals :
        /\ loc.pc = "done"
        /\ loc.show_status /\ loc.emitter /\ ~loc.transport_raised
        /\ loc.result.status = "success"
        /\ Len(loc.events) = 5
        /\ loc.events[1] = StatusEvent(FALSE)
        /\ loc.events[2] = StatusEvent(FALSE)
        /\ loc.events[3].type = "image"
        /\ loc.events[4].type = "image"
        /\ loc.events[5] = StatusEvent(TRUE)

====
